---- MODULE Spec2Model ----
\* A model of article_generator.py: the SQL escaper, the content requester with
\* its fallback, the row builder, the batch loop and main().
\*
\* Text is a sequence of tokens.  A token is a single character ("a", "'",
\* a backtick, a newline, ...), or a constant quote-free piece of a template of the
\* source ("Understanding "), or, inside a collaborator response, the name of a
\* JSON document ("D1"): one maximal chunk of well-formed JSON text, whose
\* decoded value is DocOf("D1").
EXTENDS Integers, Sequences, FiniteSets, TLC

VARIABLES
    \* ---- escape_sql_string applied to one text (SpecEscape)
    esc_pc, esc_text, esc_out,
    \* ---- generate_article_content applied to one topic (SpecContent)
    gc_pc, gc_topic, gc_outcome, gc_result,
    \* ---- main() and the batch (Spec)
    pc,            \* position of main()
    input_file,    \* what is on disk at the input path
    env_created_by,\* CREATED_BY_UUID
    hashseed,      \* the per-process salt of Python's str hash
    topics,        \* the list load_topics_from_file returned
    idx,           \* 1-based position of the loop of generate_batch_sql
    st,            \* per topic: pending, requesting, validated, fallback, row-built, done, aborted
    response,      \* what the collaborator did for the topic in hand
    article_data,  \* the record generate_article_content returned
    row,           \* the tuple generate_sql_insert returned, not yet appended
    inserts,       \* the list of completed rows
    calls,         \* log of collaborator calls: [topic, rows], rows = Len(inserts) at the call
    sql_output,    \* the statement generate_batch_sql returned
    output_file    \* the output file: written or not, and its statement

escVars == <<esc_pc, esc_text, esc_out>>
gcVars == <<gc_pc, gc_topic, gc_outcome, gc_result>>
mainVars == <<pc, input_file, env_created_by, hashseed, topics, idx, st, response,
              article_data, row, inserts, calls, sql_output, output_file>>
vars == <<escVars, gcVars, mainVars>>

\* ------------------------------------------------------------------ bounds
MaxLen == 4
MaxTopics == 2
MaxSeed == 1

\* ------------------------------------------------------------ text helpers
Min(a, b) == IF a < b THEN a ELSE b

QUOTE == "'"
\* the backtick character
TICK == "<bt>"
NL == "\n"
SP == " "

IsWS(c) == c \in {SP, NL}

RECURSIVE LStripWS(_)
LStripWS(s) == IF s # <<>> /\ IsWS(Head(s)) THEN LStripWS(Tail(s)) ELSE s

RECURSIVE RStripWS(_)
RStripWS(s) ==
    IF s # <<>> /\ IsWS(s[Len(s)]) THEN RStripWS(SubSeq(s, 1, Len(s) - 1)) ELSE s

StartsWith(s, p) == Len(s) >= Len(p) /\ SubSeq(s, 1, Len(p)) = p
EndsWith(s, p) == Len(s) >= Len(p) /\ SubSeq(s, Len(s) - Len(p) + 1, Len(s)) = p
Drop(s, n) == SubSeq(s, n + 1, Len(s))
DropLast(s, n) == SubSeq(s, 1, Len(s) - n)

\* Python: needle in hay, on two str values.
IsSubstring(needle, hay) ==
    \E k \in 0 .. (Len(hay) - Len(needle)) : SubSeq(hay, k + 1, k + Len(needle)) = needle

RECURSIVE Repeat(_, _)
Repeat(s, n) == IF n = 0 THEN <<>> ELSE s \o Repeat(s, n - 1)

RECURSIVE CountQuotes(_)
CountQuotes(s) ==
    IF s = <<>> THEN 0
    ELSE (IF Head(s) = QUOTE THEN 1 ELSE 0) + CountQuotes(Tail(s))

RECURSIVE StripQuotes(_)
StripQuotes(s) ==
    IF s = <<>> THEN <<>>
    ELSE (IF Head(s) = QUOTE THEN <<>> ELSE <<Head(s)>>) \o StripQuotes(Tail(s))

\* str(n) of a Python int
Digit(d) ==
    CASE d = 0 -> "0" [] d = 1 -> "1" [] d = 2 -> "2" [] d = 3 -> "3" [] d = 4 -> "4"
      [] d = 5 -> "5" [] d = 6 -> "6" [] d = 7 -> "7" [] d = 8 -> "8" [] OTHER -> "9"

RECURSIVE NatStr(_)
NatStr(n) == IF n < 10 THEN <<Digit(n)>> ELSE NatStr(n \div 10) \o <<Digit(n % 10)>>

IntStr(n) == IF n < 0 THEN <<"-">> \o NatStr(0 - n) ELSE NatStr(n)

\* ---------------------------------------------------- escape_sql_string
\* text.replace("'", "''") with only the first occurrence replaced
RECURSIVE escape_first_only(_)
escape_first_only(text) ==
    IF text = <<>> THEN <<>>
    ELSE IF Head(text) = QUOTE THEN <<QUOTE, QUOTE>> \o Tail(text)
    ELSE <<Head(text)>> \o escape_first_only(Tail(text))

\* text.replace("'", "''")
RECURSIVE escape_sql_string(_)
escape_sql_string(text) ==
    IF text = <<>> THEN <<>>
    ELSE (IF Head(text) = QUOTE THEN <<QUOTE, QUOTE>> ELSE <<Head(text)>>)
         \o escape_sql_string(Tail(text))

\* the field names of line 90, spelled out
TITLE == <<"t", "i", "t", "l", "e">>
CONTENT == <<"c", "o", "n", "t", "e", "n", "t">>
EXCERPT == <<"e", "x", "c", "e", "r", "p", "t">>
SUMMARY == <<"s", "u", "m", "m", "a", "r", "y">>
SUMMARY_TITLE == <<"s", "u", "m", "m", "a", "r", "y", "_", "t", "i", "t", "l", "e">>
READING_TIME == <<"r", "e", "a", "d", "i", "n", "g", "_", "t", "i", "m", "e">>
\* a text in which each of the six names occurs
TRAP ==
    <<"s", "u", "m", "m", "a", "r", "y", "_", "t", "i", "t", "l", "e", " ">>
    \o <<"c", "o", "n", "t", "e", "n", "t", " ">>
    \o <<"e", "x", "c", "e", "r", "p", "t", " ">>
    \o <<"r", "e", "a", "d", "i", "n", "g", "_", "t", "i", "m", "e">>

\* ------------------------------------------------------------ JSON values
\* A decoded JSON value held in a field: t is its Python type, n its number
\* (t = "int"), s its text (t = "str").
StrV(s) == [t |-> "str", n |-> 0, s |-> s]
IntV(n) == [t |-> "int", n |-> n, s |-> <<>>]
NullV == [t |-> "NoneType", n |-> 0, s |-> <<>>]

\* line 90
required_fields == <<"title", "content", "excerpt", "summary", "summary_title", "reading_time">>
FieldNames == {required_fields[k] : k \in 1 .. Len(required_fields)}

\* The characters of a field name, for Python's substring test on a str.
FieldChars(f) ==
    CASE f = "title" -> TITLE
      [] f = "content" -> CONTENT
      [] f = "excerpt" -> EXCERPT
      [] f = "summary" -> SUMMARY
      [] f = "summary_title" -> SUMMARY_TITLE
      [] OTHER -> READING_TIME

\* A decoded JSON document (what json.loads returns): kind is its Python type;
\* a dict has keys and val (val[k] read only for k in keys); a list has the
\* str elements elems; a str has text.
DictDoc(keys, val) == [kind |-> "dict", keys |-> keys, val |-> val, elems |-> {}, text |-> <<>>]
ListDoc(elems) ==
    [kind |-> "list", keys |-> {}, val |-> [f \in FieldNames |-> NullV], elems |-> elems, text |-> <<>>]
StrDoc(text) ==
    [kind |-> "str", keys |-> {}, val |-> [f \in FieldNames |-> NullV], elems |-> {}, text |-> text]
NumDoc == [kind |-> "int", keys |-> {}, val |-> [f \in FieldNames |-> NullV], elems |-> {}, text |-> <<>>]
NoDoc == [kind |-> "none", keys |-> {}, val |-> [f \in FieldNames |-> NullV], elems |-> {}, text |-> <<>>]

\* A complete article object with the given title and reading_time.
Article(title, reading_time) ==
    DictDoc(FieldNames,
            [f \in FieldNames |->
                CASE f = "title" -> title
                  [] f = "content" -> StrV(<<"<p>", "i", QUOTE, "s", "</p>", NL>>)
                  [] f = "excerpt" -> StrV(<<"e">>)
                  [] f = "summary" -> StrV(<<"s", QUOTE, QUOTE>>)
                  [] f = "summary_title" -> StrV(<<"t">>)
                  [] OTHER -> reading_time])

\* The JSON documents a response may carry.
DocIds == {"D1", "D2", "D3", "D4", "D5", "D6", "D7", "D8", "D9", "D10"}
DocOf(d) ==
    CASE d = "D1" -> Article(StrV(<<"G", "D">>), IntV(7))
      [] d = "D2" -> Article(StrV(<<"i", "t", QUOTE, "s">>), IntV(12))
      \* an object without "summary"
      [] d = "D3" -> [Article(StrV(<<"G">>), IntV(7)) EXCEPT !.keys = FieldNames \ {"summary"}]
      \* "title": 5
      [] d = "D4" -> Article(IntV(5), IntV(7))
      \* "reading_time": "5 m"
      [] d = "D5" -> Article(StrV(<<"G">>), StrV(<<"5", SP, "m">>))
      \* "reading_time": 0
      [] d = "D6" -> Article(StrV(<<"G">>), IntV(0))
      \* "reading_time": null
      [] d = "D7" -> Article(StrV(<<"G">>), NullV)
      \* the JSON string "summary_title content excerpt reading_time"
      [] d = "D8" -> StrDoc(TRAP)
      \* the JSON list of the six field names
      [] d = "D9" -> ListDoc(FieldNames)
      \* a JSON number
      [] OTHER -> NumDoc

\* ------------------------------------------------- collaborator outcomes
\* get_llm_output either raises or returns a text.
Raised == [raised |-> TRUE, text |-> <<>>]
Returned(text) == [raised |-> FALSE, text |-> text]
NoOutcome == [raised |-> FALSE, text |-> <<"<none>">>]

FENCE == <<TICK, TICK, TICK>>
JSON_TAG == <<"j", "s", "o", "n">>
\* what may precede the JSON body: nothing, a fence line with the json tag, a
\* bare fence line, a fence line with the tag and a trailing blank
Openers == {<<>>, FENCE \o JSON_TAG \o <<NL>>, FENCE \o <<NL>>, FENCE \o JSON_TAG \o <<SP, NL>>}
\* what may follow it: nothing, a closing fence line, one with a final newline
Closers == {<<>>, <<NL>> \o FENCE, <<NL>> \o FENCE \o <<NL>>}

Texts ==
    {o \o <<d>> \o c : o \in Openers, d \in DocIds, c \in Closers}
    \cup {<<>>, <<"S", "o", "r", "r", "y">>, FENCE \o JSON_TAG, <<"D1", "D1">>}
Outcomes == {Raised} \cup {Returned(t) : t \in Texts}

\* ------------------------------------------- generate_article_content
\* line 84: re.sub(r'^```json?\s*\n?', '', response_content).  The pattern is
\* three backticks, "jso", an optional "n", then all the whitespace that follows.
StripOpeningFence(text) ==
    IF StartsWith(text, FENCE \o <<"j", "s", "o">>)
    THEN LET r == Drop(text, 6)
             r2 == IF r # <<>> /\ Head(r) = "n" THEN Tail(r) ELSE r
         IN  LStripWS(r2)
    ELSE text

\* line 85: re.sub(r'\n?```\s*$', '', response_content): the last three
\* backticks when only whitespace follows them, with one newline before them.
StripClosingFence(text) ==
    LET t == RStripWS(text)
    IN  IF EndsWith(t, FENCE)
        THEN LET x == DropLast(t, 3)
             IN  IF x # <<>> /\ x[Len(x)] = NL THEN DropLast(x, 1) ELSE x
        ELSE text

\* lines 83-85
ExtractJson(text) ==
    IF StartsWith(text, FENCE)
    THEN StripClosingFence(StripOpeningFence(text))
    ELSE text

\* line 87: json.loads.  JSON text is one document with optional whitespace
\* around it; anything else raises JSONDecodeError.
JsonLoads(text) ==
    LET t == RStripWS(LStripWS(text))
    IN  IF Len(t) = 1 /\ t[1] \in DocIds
        THEN [ok |-> TRUE, value |-> DocOf(t[1])]
        ELSE [ok |-> FALSE, value |-> NoDoc]

\* line 92: field not in article_data.  "ok" is FALSE when the test itself
\* raises TypeError (an int is not a container).
NotIn(field, doc) ==
    CASE doc.kind = "dict" -> [ok |-> TRUE, v |-> field \notin doc.keys]
      [] doc.kind = "list" -> [ok |-> TRUE, v |-> field \notin doc.elems]
      [] doc.kind = "str" -> [ok |-> TRUE, v |-> ~IsSubstring(FieldChars(field), doc.text)]
      [] OTHER -> [ok |-> FALSE, v |-> FALSE]

\* lines 91-93: the loop raises (ValueError or TypeError) or passes
Validates(doc) ==
    \A k \in 1 .. Len(required_fields) :
        LET r == NotIn(required_fields[k], doc) IN r.ok /\ ~r.v

\* lines 80-95, the body of the try: ok is FALSE when it raised an Exception
TryGenerate(outcome) ==
    IF outcome.raised THEN [ok |-> FALSE, data |-> NoDoc]
    ELSE LET j == JsonLoads(ExtractJson(outcome.text))
         IN  IF j.ok /\ Validates(j.value)
             THEN [ok |-> TRUE, data |-> j.value]
             ELSE [ok |-> FALSE, data |-> NoDoc]

\* lines 100-107 with reading_time 5
FallbackWrongTime(topic) ==
    DictDoc(FieldNames,
            [f \in FieldNames |->
                CASE f = "title" -> StrV(<<"Understanding ">> \o topic \o <<": A Comprehensive Guide">>)
                  [] f = "content" -> StrV(<<"<p>This is a comprehensive guide about ">> \o topic \o <<".</p>">>)
                  [] f = "excerpt" -> StrV(<<"Learn about ">> \o topic \o <<" in machine learning.">>)
                  [] f = "summary" ->
                        StrV(Repeat(topic \o <<" is an important concept in machine learning. ">>, 10))
                  [] f = "summary_title" -> StrV(SubSeq(topic, 1, Min(30, Len(topic))))
                  [] OTHER -> IntV(5)])

\* lines 100-107
Fallback(topic) ==
    DictDoc(FieldNames,
            [f \in FieldNames |->
                CASE f = "title" -> StrV(<<"Understanding ">> \o topic \o <<": A Comprehensive Guide">>)
                  [] f = "content" -> StrV(<<"<p>This is a comprehensive guide about ">> \o topic \o <<".</p>">>)
                  [] f = "excerpt" -> StrV(<<"Learn about ">> \o topic \o <<" in machine learning.">>)
                  [] f = "summary" ->
                        StrV(Repeat(topic \o <<" is an important concept in machine learning. ">>, 10))
                  [] f = "summary_title" -> StrV(SubSeq(topic, 1, Min(30, Len(topic))))
                  [] OTHER -> IntV(10)])

\* lines 78-107: what the method returns for a topic and a collaborator outcome
generate_article_content(topic, outcome) ==
    LET r == TryGenerate(outcome)
    IN  IF r.ok THEN r.data ELSE Fallback(topic)

\* ===================================================== idle components
EscIdle == esc_pc = "idle" /\ esc_text = <<>> /\ esc_out = <<>>
GcIdle == gc_pc = "idle" /\ gc_topic = <<>> /\ gc_outcome = NoOutcome /\ gc_result = NoDoc
MainIdle ==
    /\ pc = "idle" /\ input_file = [kind |-> "missing", topics |-> <<>>]
    /\ env_created_by = <<>> /\ hashseed = 0 /\ topics = <<>> /\ idx = 0 /\ st = <<>>
    /\ response = NoOutcome /\ article_data = NoDoc /\ row = <<>> /\ inserts = <<>>
    /\ calls = <<>> /\ sql_output = <<>> /\ output_file = [written |-> FALSE, sql |-> <<>>]

\* ============================================ SpecEscape: the escaper alone
Alphabet == {"a", QUOTE, NL}
EscTexts == UNION {[1 .. n -> Alphabet] : n \in 0 .. MaxLen}

EscInit == esc_pc = "call" /\ esc_text \in EscTexts /\ esc_out = <<>> /\ GcIdle /\ MainIdle

\* one call of escape_sql_string (lines 132-142)
EscapeCall ==
    /\ esc_pc = "call"
    /\ esc_out' = escape_sql_string(esc_text)
    /\ esc_pc' = "returned"
    /\ UNCHANGED <<esc_text, gcVars, mainVars>>

EscNext == EscapeCall
SpecEscape == EscInit /\ [][EscNext]_vars

\* ================================ SpecContent: the content requester alone
TopicNames == {<<"g", "d">>, <<"q", QUOTE, "s">>, <<"n">>}

GcInit ==
    /\ gc_pc = "call" /\ gc_topic \in TopicNames /\ gc_outcome = NoOutcome /\ gc_result = NoDoc
    /\ EscIdle /\ MainIdle

\* line 80: the collaborator is called and raises or returns a text
GcRequest ==
    /\ gc_pc = "call"
    /\ \E o \in Outcomes : gc_outcome' = o
    /\ gc_pc' = "responded"
    /\ UNCHANGED <<gc_topic, gc_result, escVars, mainVars>>

\* lines 82-107: the response is parsed and validated, or the fallback built
GcReturn ==
    /\ gc_pc = "responded"
    /\ gc_result' = generate_article_content(gc_topic, gc_outcome)
    /\ gc_pc' = "returned"
    /\ UNCHANGED <<gc_topic, gc_outcome, escVars, mainVars>>

GcNext == GcRequest \/ GcReturn
SpecContent == GcInit /\ [][GcNext]_vars

\* ======================================================= the row builder
\* lines 121-127
default_images ==
    <<<<"https://images.pexels.com/photos/8439093/pexels-photo-8439093.jpeg">>,
      <<"https://images.pexels.com/photos/3861969/pexels-photo-3861969.jpeg">>,
      <<"https://images.pexels.com/photos/8386434/pexels-photo-8386434.jpeg">>,
      <<"https://images.pexels.com/photos/8438918/pexels-photo-8438918.jpeg">>,
      <<"https://images.pexels.com/photos/7516366/pexels-photo-7516366.jpeg">>>>

\* hash(topic): Python salts the hash of a str per process, so its value is
\* some function of the process's seed and the text.
StrHash(topic, seed) == seed + Len(topic)

\* line 130
get_featured_image(topic, seed) == default_images[(StrHash(topic, seed) % Len(default_images)) + 1]

\* str(x) of a field value, as an f-string renders it
FormatValue(v) ==
    CASE v.t = "int" -> IntStr(v.n)
      [] v.t = "str" -> v.s
      [] OTHER -> <<"N", "o", "n", "e">>

\* A Topic Request: a dict with the keys it has.
TopicGet(t, key, default) == IF key \in t.keys THEN t[key] ELSE default

\* article_data[key] and article_data.get(key, ''): ok is FALSE when the
\* subscript raises (TypeError on a str or a list, KeyError on a dict).
DocItem(doc, key) ==
    IF doc.kind = "dict" /\ key \in doc.keys
    THEN [ok |-> TRUE, v |-> doc.val[key]]
    ELSE [ok |-> FALSE, v |-> NullV]
DocGet(doc, key, default) ==
    IF doc.kind = "dict"
    THEN [ok |-> TRUE, v |-> IF key \in doc.keys THEN doc.val[key] ELSE default]
    ELSE [ok |-> FALSE, v |-> NullV]

\* self.escape_sql_string(x) on a field value: x.replace exists on a str only
EscapeValue(r) ==
    IF r.ok /\ r.v.t = "str"
    THEN [ok |-> TRUE, s |-> escape_sql_string(r.v.s)]
    ELSE [ok |-> FALSE, s |-> <<>>]

\* line 183: the body of each quoted tag literal, the tag as it is
TagLiterals(tags) == [k \in 1 .. Len(tags) |-> tags[k]]

\* lines 170-202, after generate_article_content returned article_data: the
\* value tuple, each quoted literal by its body and each bare literal by its
\* text; ok is FALSE when a line raised.
generate_sql_insert(topic, tags, is_premium, views, created_by, data, seed) ==
    LET title == EscapeValue(DocItem(data, "title"))
        content == EscapeValue(DocItem(data, "content"))
        excerpt == EscapeValue(DocGet(data, "excerpt", StrV(<<>>)))
        summary == EscapeValue(DocGet(data, "summary", StrV(<<>>)))
        summary_title == EscapeValue(DocGet(data, "summary_title", StrV(<<>>)))
        reading_time == DocGet(data, "reading_time", IntV(10))
    IN  IF title.ok /\ content.ok /\ excerpt.ok /\ summary.ok /\ summary_title.ok
           /\ reading_time.ok
        THEN [ok |-> TRUE,
              row |-> [title |-> title.s, content |-> content.s, excerpt |-> excerpt.s,
                       summary |-> summary.s, summary_title |-> summary_title.s,
                       featured_image |-> get_featured_image(topic, seed),
                       reading_time |-> FormatValue(reading_time.v),
                       tags |-> TagLiterals(tags),
                       is_premium |-> IF is_premium THEN "true" ELSE "false",
                       views |-> IntStr(views),
                       created_by |-> created_by]]
        ELSE [ok |-> FALSE, row |-> <<>>]

\* lines 221-223, 239, 242: the header, the rows joined by ",\n", and ";"
Piece(kind, r) == [kind |-> kind, row |-> r]
RECURSIVE JoinRows(_)
JoinRows(rows) ==
    IF rows = <<>> THEN <<>>
    ELSE IF Len(rows) = 1 THEN <<Piece("tuple", rows[1])>>
    ELSE <<Piece("tuple", rows[1]), Piece(",\n", <<>>)>> \o JoinRows(Tail(rows))
CompleteSql(rows) == <<Piece("INSERT INTO articles (...) VALUES\n", <<>>)>> \o JoinRows(rows) \o <<Piece(";", <<>>)>>

\* the value tuples of a statement, in order
TuplesOf(sql) ==
    LET RECURSIVE T(_)
        T(s) == IF s = <<>> THEN <<>>
                ELSE (IF Head(s).kind = "tuple" THEN <<Head(s).row>> ELSE <<>>) \o T(Tail(s))
    IN  T(sql)

\* ================================================= Spec: main() and the batch
DEFAULT_UUID == <<"c41b5bc1-d819-4b8a-ab04-cf1ae4692304">>
Creators == {DEFAULT_UUID, <<"o", QUOTE, "b">>}
HashSeeds == 0 .. MaxSeed

TopicRequest(keys, name, tags, is_premium, views) ==
    [keys |-> keys, name |-> name, tags |-> tags, is_premium |-> is_premium, views |-> views]
TopicRequests ==
    { TopicRequest({"name", "tags", "is_premium", "views"}, <<"g", "d">>, <<<<"m", "l">>>>, TRUE, 5),
      TopicRequest({"name", "tags"}, <<"q", QUOTE, "s">>, <<<<"k", QUOTE, "m">>, <<"x">>>>, FALSE, 0),
      TopicRequest({"name"}, <<"n">>, <<>>, FALSE, 0),
      TopicRequest({"tags", "views"}, <<>>, <<<<"m", "l">>>>, FALSE, 12) }
TopicLists == UNION {[1 .. n -> TopicRequests] : n \in 0 .. MaxTopics}

\* What the input path holds: nothing, text that is not JSON, a JSON list, a
\* JSON object without "topics", or a JSON object with a list of topics.
InputFiles ==
    {[kind |-> k, topics |-> <<>>] : k \in {"missing", "unparseable", "list", "nokey"}}
    \cup {[kind |-> "ok", topics |-> l] : l \in TopicLists}

\* what the collaborator may do for a topic of the batch
BatchOutcomes ==
    {Raised} \cup {Returned(<<d>>) : d \in DocIds}
    \cup {Returned(FENCE \o JSON_TAG \o <<NL, "D1", NL>> \o FENCE),
          Returned(FENCE \o <<NL, "D1", NL>> \o FENCE)}

Init ==
    /\ pc = "start"
    /\ input_file \in InputFiles
    /\ env_created_by \in Creators
    /\ hashseed \in HashSeeds
    /\ topics = <<>> /\ idx = 0 /\ st = <<>>
    /\ response = NoOutcome /\ article_data = NoDoc /\ row = <<>> /\ inserts = <<>>
    /\ calls = <<>> /\ sql_output = <<>> /\ output_file = [written |-> FALSE, sql |-> <<>>]
    /\ EscIdle /\ GcIdle

\* lines 283-287
MainCheckInput ==
    /\ pc = "start"
    /\ pc' = IF input_file.kind = "missing" THEN "exited" ELSE "load"
    /\ UNCHANGED <<input_file, env_created_by, hashseed, topics, idx, st, response,
                   article_data, row, inserts, calls, sql_output, output_file, escVars, gcVars>>

\* lines 259-262: what load_topics_from_file returns; ok is FALSE when it raises
load_topics_from_file(f) ==
    CASE f.kind = "unparseable" -> [ok |-> FALSE, topics |-> <<>>]
      [] f.kind = "list" -> [ok |-> FALSE, topics |-> <<>>]
      [] f.kind = "nokey" -> [ok |-> TRUE, topics |-> <<>>]
      [] OTHER -> [ok |-> TRUE, topics |-> f.topics]

\* lines 291-298: the topics are loaded and the batch is entered
MainLoad ==
    /\ pc = "load"
    /\ LET r == load_topics_from_file(input_file)
       IN  IF r.ok
           THEN /\ pc' = "batch"
                /\ topics' = r.topics
                /\ st' = [k \in 1 .. Len(r.topics) |-> "pending"]
                /\ idx' = 1
           ELSE /\ pc' = "crashed"
                /\ UNCHANGED <<topics, st, idx>>
    /\ UNCHANGED <<input_file, env_created_by, hashseed, response, article_data, row,
                   inserts, calls, sql_output, output_file, escVars, gcVars>>

InBatch == pc = "batch" /\ idx \in 1 .. Len(topics)

\* line 227: topic_data['name'] raises KeyError
TopicLacksName ==
    /\ InBatch /\ st[idx] = "pending"
    /\ "name" \notin topics[idx].keys
    /\ pc' = "crashed"
    /\ st' = [st EXCEPT ![idx] = "aborted"]
    /\ UNCHANGED <<input_file, env_created_by, hashseed, topics, idx, response, article_data,
                   row, inserts, calls, sql_output, output_file, escVars, gcVars>>

\* lines 227-235, 165-170, 80: the collaborator is called for the topic
Request ==
    /\ InBatch /\ st[idx] = "pending"
    /\ "name" \in topics[idx].keys
    /\ \E o \in BatchOutcomes : response' = o
    /\ calls' = Append(calls, [topic |-> idx, rows |-> Len(inserts)])
    /\ st' = [st EXCEPT ![idx] = "requesting"]
    /\ UNCHANGED <<pc, input_file, env_created_by, hashseed, topics, idx, article_data,
                   row, inserts, sql_output, output_file, escVars, gcVars>>

\* lines 82-107 with a failed topic put back to be requested again
RespondRetry ==
    /\ InBatch /\ st[idx] = "requesting"
    /\ article_data' = generate_article_content(topics[idx].name, response)
    /\ st' = [st EXCEPT ![idx] =
                IF TryGenerate(response).ok THEN "validated"
                ELSE IF Len(calls) < MaxTopics + 2 THEN "pending" ELSE "fallback"]
    /\ UNCHANGED <<pc, input_file, env_created_by, hashseed, topics, idx, response,
                   row, inserts, calls, sql_output, output_file, escVars, gcVars>>

\* lines 82-107: generate_article_content returns the validated record or the fallback
Respond ==
    /\ InBatch /\ st[idx] = "requesting"
    /\ article_data' = generate_article_content(topics[idx].name, response)
    /\ st' = [st EXCEPT ![idx] = IF TryGenerate(response).ok THEN "validated" ELSE "fallback"]
    /\ UNCHANGED <<pc, input_file, env_created_by, hashseed, topics, idx, response,
                   row, inserts, calls, sql_output, output_file, escVars, gcVars>>

\* the call of lines 229-235 for the topic in hand
RowInHand ==
    LET t == topics[idx]
    IN  generate_sql_insert(t.name, TopicGet(t, "tags", <<>>), TopicGet(t, "is_premium", FALSE),
                            TopicGet(t, "views", 0), env_created_by, article_data, hashseed)

\* lines 173-202: the row is built
BuildRow ==
    /\ InBatch /\ st[idx] \in {"validated", "fallback"}
    /\ RowInHand.ok
    /\ row' = RowInHand.row
    /\ st' = [st EXCEPT ![idx] = "row-built"]
    /\ UNCHANGED <<pc, input_file, env_created_by, hashseed, topics, idx, response,
                   article_data, inserts, calls, sql_output, output_file, escVars, gcVars>>

\* lines 176-180: a subscript or escape_sql_string raises, outside any try
BuildRowRaises ==
    /\ InBatch /\ st[idx] \in {"validated", "fallback"}
    /\ ~RowInHand.ok
    /\ pc' = "crashed"
    /\ st' = [st EXCEPT ![idx] = "aborted"]
    /\ UNCHANGED <<input_file, env_created_by, hashseed, topics, idx, response, article_data,
                   row, inserts, calls, sql_output, output_file, escVars, gcVars>>

\* line 236: inserts.append(insert), and the loop moves on
AppendRow ==
    /\ InBatch /\ st[idx] = "row-built"
    /\ inserts' = Append(inserts, row)
    /\ st' = [st EXCEPT ![idx] = "done"]
    /\ idx' = idx + 1
    /\ row' = <<>> /\ response' = NoOutcome /\ article_data' = NoDoc
    /\ UNCHANGED <<pc, input_file, env_created_by, hashseed, topics, calls, sql_output,
                   output_file, escVars, gcVars>>

\* lines 239-246: the loop is over and the statement is returned
BatchReturn ==
    /\ pc = "batch" /\ idx = Len(topics) + 1
    /\ sql_output' = CompleteSql(inserts)
    /\ pc' = "returned"
    /\ UNCHANGED <<input_file, env_created_by, hashseed, topics, idx, st, response,
                   article_data, row, inserts, calls, output_file, escVars, gcVars>>

\* lines 301-303: the output file is written
MainWrite ==
    /\ pc = "returned"
    /\ output_file' = [written |-> TRUE, sql |-> sql_output]
    /\ pc' = "done"
    /\ UNCHANGED <<input_file, env_created_by, hashseed, topics, idx, st, response,
                   article_data, row, inserts, calls, sql_output, escVars, gcVars>>

Next ==
    \/ MainCheckInput
    \/ MainLoad
    \/ TopicLacksName
    \/ Request
    \/ Respond
    \/ BuildRow
    \/ BuildRowRaises
    \/ AppendRow
    \/ BatchReturn
    \/ MainWrite

Spec == Init /\ [][Next]_vars

\* ==================================================================== claims
Digits == {"0", "1", "2", "3", "4", "5", "6", "7", "8", "9"}
IsNatLiteral(s) == s # <<>> /\ \A k \in 1 .. Len(s) : s[k] \in Digits
IsPosIntLiteral(s) == IsNatLiteral(s) /\ \E k \in 1 .. Len(s) : s[k] # "0"

\* Reading a literal body back: a pair of quotes is one quote of the data, a
\* quote alone is not part of any pair.
RECURSIVE Unescape(_)
Unescape(s) ==
    IF s = <<>> THEN <<>>
    ELSE IF Head(s) = QUOTE
         THEN IF Len(s) >= 2 /\ s[2] = QUOTE
              THEN <<QUOTE>> \o Unescape(Drop(s, 2))
              ELSE <<"<lone quote>">> \o Unescape(Tail(s))
         ELSE <<Head(s)>> \o Unescape(Tail(s))
QuotesDoubled(s) == \A k \in 1 .. Len(Unescape(s)) : Unescape(s)[k] # "<lone quote>"

HasName(k) == "name" \in topics[k].keys
AllNamed == \A k \in 1 .. Len(topics) : HasName(k)
BatchEntered == idx >= 1
RunOver == pc \in {"exited", "crashed", "done"}

\* ---- C4 (SpecEscape)
\* C4: for an input with N single quotes, escape_sql_string returns a text with
\* 2N single quotes, in which every quote of the input has become two
\* consecutive quotes and every other character is unchanged, in the same order.
C4_EscapeDoublesEveryQuote ==
    esc_pc = "returned" =>
        /\ CountQuotes(esc_out) = 2 * CountQuotes(esc_text)
        /\ Len(esc_out) = Len(esc_text) + CountQuotes(esc_text)
        /\ StripQuotes(esc_out) = StripQuotes(esc_text)
        /\ Unescape(esc_out) = esc_text
C4_Witness == esc_pc = "returned" /\ esc_text = <<QUOTE, "a", QUOTE, NL>>

\* ---- C3, C6 (SpecContent)
\* C3: when the content requester fails for a topic (the collaborator raises,
\* the text is not JSON, a required key is missing), the record returned has
\* the title "Understanding {topic}: A Comprehensive Guide" and reading_time 10,
\* and is the same record whatever the failure was: it depends on the topic alone.
C3_FailureGivesFallback ==
    (gc_pc = "returned" /\ ~TryGenerate(gc_outcome).ok) =>
        /\ gc_result.kind = "dict" /\ gc_result.keys = FieldNames
        /\ gc_result.val["title"]
             = StrV(<<"Understanding ">> \o gc_topic \o <<": A Comprehensive Guide">>)
        /\ gc_result.val["reading_time"] = IntV(10)
        /\ \A o \in Outcomes :
              ~TryGenerate(o).ok => generate_article_content(gc_topic, o) = gc_result
C3_Witness ==
    /\ gc_pc = "returned" /\ gc_outcome = Returned(<<"D3">>)
    /\ gc_topic = <<"q", QUOTE, "s">> /\ gc_result.val["reading_time"] = IntV(10)

\* a fence line, with or without the language tag, a JSON body, a closing fence
FencedTexts == {o \o <<d, NL>> \o FENCE : o \in {FENCE \o <<NL>>, FENCE \o JSON_TAG \o <<NL>>}, d \in DocIds}
BodyOf(text) == <<text[Len(text) - 4]>>

\* C6: a response that is a fence line (three backticks, optionally followed by
\* a language tag such as json), a JSON body and a closing fence line yields the
\* record its body alone yields, so never the fallback for a complete body.
C6_FencedEqualsBody ==
    (gc_pc = "returned" /\ ~gc_outcome.raised /\ gc_outcome.text \in FencedTexts) =>
        gc_result = generate_article_content(gc_topic, Returned(BodyOf(gc_outcome.text)))

\* ---- C1, C2, C5, C7, C8, C9, C10 (Spec)
\* the tuples a topic request can give, over all the collaborator may do
RowsFor(t) ==
    {generate_sql_insert(t.name, TopicGet(t, "tags", <<>>), TopicGet(t, "is_premium", FALSE),
                         TopicGet(t, "views", 0), env_created_by,
                         generate_article_content(t.name, o), hashseed).row : o \in BatchOutcomes}

\* C1: for K topic requests, each with a name, and whatever the collaborator
\* returns or raises, generate_batch_sql returns a statement with exactly K
\* value tuples, tuple N built from request N.
C1_OneTuplePerTopicInOrder ==
    (BatchEntered /\ AllNamed /\ RunOver) =>
        /\ pc = "done"
        /\ Len(TuplesOf(sql_output)) = Len(topics)
        /\ \A n \in 1 .. Len(topics) : TuplesOf(sql_output)[n] \in RowsFor(topics[n])

\* C2: no topic's generation outcome aborts the batch: a topic for which the
\* collaborator was called reaches a built row, and the run ends with one tuple
\* per input topic.
C2_GenerationNeverAborts ==
    /\ \A k \in 1 .. Len(st) : st[k] = "aborted" => ~HasName(k)
    /\ (pc = "crashed" /\ BatchEntered) => ~HasName(idx)

\* C5: in every tuple of the statement every quoted literal is internally
\* escaped: no single quote of the data stands undoubled inside a literal.
C5_EveryLiteralEscaped ==
    \A n \in 1 .. Len(TuplesOf(sql_output)) :
        LET r == TuplesOf(sql_output)[n]
        IN  /\ \A f \in {"title", "content", "excerpt", "summary", "summary_title",
                         "featured_image", "created_by"} : QuotesDoubled(r[f])
            /\ \A k \in 1 .. Len(r.tags) : QuotesDoubled(r.tags[k])

FatalInput ==
    \/ input_file.kind \in {"missing", "unparseable", "list", "nokey"}
    \/ \E k \in 1 .. Len(input_file.topics) : "name" \notin input_file.topics[k].keys

\* C7: on a fatal input error (file missing, not parseable, mapping malformed
\* such as lacking the topics key, a topic request without name) no output file
\* is written; one is written only after every topic has been turned into a row.
C7_NoOutputOnFatalInput ==
    /\ FatalInput => ~output_file.written
    /\ output_file.written =>
          /\ Len(inserts) = Len(topics)
          /\ \A k \in 1 .. Len(st) : st[k] = "done"

Allowed(a, b) ==
    \/ a = b
    \/ a = "pending" /\ b = "requesting"
    \/ a = "requesting" /\ b \in {"validated", "fallback"}
    \/ a \in {"validated", "fallback"} /\ b = "row-built"
    \/ a = "row-built" /\ b = "done"

\* C8: a topic (here: one that has a name) changes state only along
\* pending -> requesting -> (validated or fallback) -> row-built -> done; in
\* particular it leaves validated and fallback only to row-built.
C8_OnlyTheListedTransitions ==
    [][pc = "batch" => \A k \in 1 .. Len(st) : HasName(k) => Allowed(st[k], st'[k])]_vars

CallsFor(k) == Cardinality({c \in 1 .. Len(calls) : calls[c].topic = k})

C10_NumericLiterals ==
    \A n \in 1 .. Len(inserts) :
        IsPosIntLiteral(inserts[n].reading_time) /\ IsNatLiteral(inserts[n].views)

====
